---------------------------- MODULE Spec2Model ----------------------------
(***************************************************************************)
(* A model of twisted/application/app.py: the twistd start-up harness.     *)
(* One behaviour is one process: run() parses the command line, the        *)
(* runner is constructed (profiler selection), ApplicationRunner.run()     *)
(* walks its four steps, the application is started, the reactor runs and  *)
(* either crashes or is shut down.                                         *)
(***************************************************************************)
EXTENDS Naturals, Sequences, FiniteSets

VARIABLES
    pc,           \* position of the process
    nargs,        \* number of command-line arguments consumed so far
    config,       \* the ServerOptions mapping
    parseResult,  \* "pending", "ok", "usage" (usage.error) or "exit" (SystemExit)
    installed,    \* reactors installed in the process
    runPos,       \* index in RunSteps of the next step of ApplicationRunner.run
    profiler,     \* name of the backend bound to ApplicationRunner.profiler.run
    application,  \* ApplicationRunner.application: NoApp until assigned
    triggers,     \* the reactor's 'shutdown' system event triggers
    events,       \* history of the calls made, in order: <<operation, argument, argument>>
    oldstdout,    \* the original standard output: [lines, dirty], a line is <<kind, text>>
    crashLog,     \* the file TWISTD-CRASH.log: [lines, dirty]
    debugState,   \* what the debug path changed: [streams, signals]
    exit          \* the exception that ended the process: [exc, msg]

vars == <<pc, nargs, config, parseResult, installed, runPos, profiler,
          application, triggers, events, oldstdout, crashLog, debugState, exit>>

-----------------------------------------------------------------------------
(* Bounds *)

\* Most command-line arguments one run is given.
MaxArgs == 4

-----------------------------------------------------------------------------
(* Values *)

None == "None"

NoApp == [name |-> None, children |-> <<>>, origin |-> None]

NoExit == [exc |-> None, msg |-> <<>>]

EmptyFile == [lines |-> <<>>, dirty |-> FALSE]

\* File names given on the command line, one per selector.
ArgFile == [python |-> "app.tac", xml |-> "app.tax", source |-> "app.tas",
            file |-> "app.tap"]

\* Short names of the reactors the registry (reactors.getReactorTypes) knows.
Registry == {"select", "poll"}

\* Reactors of the registry whose module this platform cannot import.
Unusable == {"poll"}

\* Short names a user may pass to --reactor.
ReactorNames == Registry \cup {"doesnotexist"}

\* Names a user may pass to --profiler.
ProfilerNames == {"hotshot", "profile", "bogus"}

\* tapnames of the IServiceMaker plugins found by plugin.getPlugins.
Plugins == {"web"}

\* The service the plugin's makeService returns.
MadeService(plg) == <<"service", plg>>

\* What the children of a persisted application are.
LoadedService(filename) == <<"service", filename>>

\* An entry of the call history.
Ev(op, arg) == <<op, arg, "">>

CountOp(seq, op) == Cardinality({i \in DOMAIN seq : seq[i][1] = op})

Called(op) == \E i \in DOMAIN events : events[i][1] = op

\* file.write / print: the text is buffered until the next flush.
Write(f, line) == [lines |-> Append(f.lines, line), dirty |-> TRUE]

Flush(f) == [f EXCEPT !.dirty = FALSE]

-----------------------------------------------------------------------------
(* ServerOptions *)

\* The options of ServerOptions with their defaults.  nodaemon is the flag
\* runReactorWithLogging reads as config['nodaemon']; the ServerOptions of
\* the platform declares it.
ServerOptionsInit ==
    [savestats |-> FALSE, no_save |-> FALSE, encrypted |-> FALSE,
     nothotshot |-> FALSE, nodaemon |-> FALSE,
     logfile |-> None, profile |-> None, profiler |-> "hotshot",
     file |-> "twistd.tap", python |-> None, xml |-> None, source |-> None,
     debug |-> FALSE, subCommand |-> None]

Selectors == <<"python", "xml", "source", "file">>

\* Python truth of the value of an option that takes a parameter.
Truthy(v) == v # None /\ v # ""

Init ==
    /\ pc = "parseOptions"
    /\ nargs = 0
    /\ config = ServerOptionsInit
    /\ parseResult = "pending"
    /\ installed = {}
    /\ runPos = 1
    /\ profiler = None
    /\ application = NoApp
    /\ triggers = [before |-> <<>>, after |-> <<>>]
    /\ events = <<>>
    /\ oldstdout = EmptyFile
    /\ crashLog = EmptyFile
    /\ debugState = [streams |-> "redirected", signals |-> {}]
    /\ exit = NoExit

-----------------------------------------------------------------------------
(* run(runApp, ServerOptions): option parsing *)

\* usage.Options handles one more argument; a sub-command takes all the
\* arguments after it.
CanParse ==
    /\ pc = "parseOptions"
    /\ nargs < MaxArgs
    /\ config.subCommand = None

\* The handler of run() for usage.error: the usage text (print config) and
\* one error line; runApp is not called.  evs is the call history when the
\* error reaches run().
run_except_both(evs, ue) ==
    /\ parseResult' = "usage"
    /\ oldstdout' = Write(Write(oldstdout, <<"usage text", "">>), <<"error line", ue>>)
    /\ events' = Append(evs, Ev("runApp", ""))
    /\ pc' = "runApp"

run_except(evs, ue) ==
    /\ parseResult' = "usage"
    /\ oldstdout' = Write(Write(oldstdout, <<"usage text", "">>), <<"error line", ue>>)
    /\ events' = evs
    /\ pc' = "done"

\* The else clause of run(): runApp(config).
run_else ==
    /\ parseResult' = "ok"
    /\ events' = Append(events, Ev("runApp", ""))
    /\ pc' = "runApp"

\* An option of optParameters: the value is stored under the option's name.
OptParameter(name, value) ==
    /\ CanParse
    /\ nargs' = nargs + 1
    /\ config' = [config EXCEPT ![name] = value]
    /\ UNCHANGED <<pc, parseResult, installed, runPos, profiler, application,
                   triggers, events, oldstdout, crashLog, debugState, exit>>

\* An option of optFlags: the flag is set.
OptFlag(name) ==
    /\ CanParse
    /\ nargs' = nargs + 1
    /\ config' = [config EXCEPT ![name] = TRUE]
    /\ UNCHANGED <<pc, parseResult, installed, runPos, profiler, application,
                   triggers, events, oldstdout, crashLog, debugState, exit>>

opt_debug ==
    /\ CanParse
    /\ nargs' = nargs + 1
    /\ config' = [config EXCEPT !.debug = TRUE]
    /\ UNCHANGED <<pc, parseResult, installed, runPos, profiler, application,
                   triggers, events, oldstdout, crashLog, debugState, exit>>

\* reactors.installReactor: which exception it raises (None: it returns), and
\* the reactors installed afterwards.
installReactor(shortName, inst) ==
    IF shortName \notin Registry
    THEN [raised |-> "NoSuchReactor", installed |-> inst]
    ELSE IF shortName \in Unusable
    THEN [raised |-> "ImportError", installed |-> inst]
    ELSE IF inst # {}
    THEN [raised |-> "ReactorAlreadyInstalledError", installed |-> inst]
    ELSE [raised |-> None, installed |-> inst \cup {shortName}]

\* opt_reactor where only NoSuchReactor becomes a usage error.
opt_reactor_narrow(shortName) ==
    LET r == installReactor(shortName, installed)
        evs == Append(events, Ev("opt_reactor", shortName)) IN
    /\ CanParse
    /\ nargs' = nargs + 1
    /\ installed' = r.installed
    /\ IF r.raised = None
       THEN /\ events' = evs
            /\ UNCHANGED <<pc, parseResult, oldstdout, exit>>
       ELSE IF r.raised = "NoSuchReactor"
       THEN /\ run_except(evs, "The specified reactor does not exist")
            /\ UNCHANGED exit
       ELSE /\ exit' = [exc |-> r.raised, msg |-> <<>>]
            /\ parseResult' = "exit"
            /\ pc' = "done"
            /\ events' = evs
            /\ UNCHANGED oldstdout
    /\ UNCHANGED <<config, runPos, profiler, application, triggers, crashLog,
                   debugState>>

opt_reactor(shortName) ==
    LET r == installReactor(shortName, installed)
        evs == Append(events, Ev("opt_reactor", shortName)) IN
    /\ CanParse
    /\ nargs' = nargs + 1
    /\ installed' = r.installed
    /\ IF r.raised = None
       THEN /\ events' = evs
            /\ UNCHANGED <<pc, parseResult, oldstdout>>
       ELSE IF r.raised = "NoSuchReactor"
       THEN run_except(evs, "The specified reactor does not exist")
       ELSE run_except(evs, "The specified reactor cannot be used")
    /\ UNCHANGED <<config, runPos, profiler, application, triggers, crashLog,
                   debugState, exit>>

\* --help-reactors: the list is written and SystemExit(0) leaves run().
opt_help_reactors ==
    /\ CanParse
    /\ nargs' = nargs + 1
    /\ oldstdout' = Write(oldstdout, <<"reactor list", "">>)
    /\ exit' = [exc |-> "SystemExit", msg |-> <<"0">>]
    /\ parseResult' = "exit"
    /\ pc' = "done"
    /\ UNCHANGED <<config, installed, runPos, profiler, application, triggers,
                   events, crashLog, debugState>>

\* An argument usage.Options rejects: usage.error reaches run().
MalformedArgument ==
    /\ CanParse
    /\ nargs' = nargs + 1
    /\ run_except(events, "option not recognized")
    /\ UNCHANGED <<config, installed, runPos, profiler, application, triggers,
                   crashLog, debugState, exit>>

\* A sub-command: the tapname of a plugin in loadedPlugins.
SubCommand(plg) ==
    /\ CanParse
    /\ nargs' = nargs + 1
    /\ config' = [config EXCEPT !.subCommand = plg]
    /\ UNCHANGED <<pc, parseResult, installed, runPos, profiler, application,
                   triggers, events, oldstdout, crashLog, debugState, exit>>

\* ServerOptions.parseOptions without arguments: options = ["--help"], which
\* prints the usage text and exits with status 0.
parseOptions_help ==
    /\ pc = "parseOptions"
    /\ nargs = 0
    /\ oldstdout' = Write(oldstdout, <<"usage text", "">>)
    /\ exit' = [exc |-> "SystemExit", msg |-> <<"0">>]
    /\ parseResult' = "exit"
    /\ pc' = "done"
    /\ UNCHANGED <<nargs, config, installed, runPos, profiler, application,
                   triggers, events, crashLog, debugState>>

postOptions(c) ==
    IF c.subCommand # None \/ Truthy(c.python)
    THEN [c EXCEPT !.no_save = TRUE]
    ELSE c

\* All arguments are parsed: postOptions, then the else clause of run().
parseOptions_return ==
    /\ pc = "parseOptions"
    /\ nargs > 0
    /\ config' = postOptions(config)
    /\ run_else
    /\ UNCHANGED <<nargs, installed, runPos, profiler, application, triggers,
                   oldstdout, crashLog, debugState, exit>>

ParseStep ==
    \/ \E t \in {"python", "xml", "source", "file"} : OptParameter(t, ArgFile[t])
    \/ OptParameter("file", "")
    \/ OptParameter("profile", "profile.out")
    \/ \E n \in ProfilerNames : OptParameter("profiler", n)
    \/ \E f \in {"savestats", "no_save", "encrypted", "nothotshot", "nodaemon"} :
           OptFlag(f)
    \/ opt_debug
    \/ \E n \in ReactorNames : opt_reactor(n)
    \/ opt_help_reactors
    \/ MalformedArgument
    \/ \E p \in Plugins : SubCommand(p)
    \/ parseOptions_help
    \/ parseOptions_return


-----------------------------------------------------------------------------
(* ApplicationRunner.__init__ and AppProfiler *)

profilers == {"profile", "hotshot"}

\* AppProfiler.__init__ where an unknown name falls back to the default.
AppProfiler_fallback(options) ==
    LET name == IF options.nothotshot THEN "profile" ELSE options.profiler IN
    IF name \in profilers
    THEN [profiler |-> name, exit |-> NoExit]
    ELSE [profiler |-> "hotshot", exit |-> NoExit]

\* AppProfiler.__init__: the backend whose run is bound, or the SystemExit.
AppProfiler(options) ==
    LET name == IF options.nothotshot THEN "profile" ELSE options.profiler IN
    IF name \in profilers
    THEN [profiler |-> name, exit |-> NoExit]
    ELSE [profiler |-> name,
          exit |-> [exc |-> "SystemExit",
                    msg |-> <<"Unsupported profiler name: ", name>>]]

\* runApp(config) constructs the runner; when the constructor returns,
\* ApplicationRunner.run() is entered.
ApplicationRunner_init ==
    LET p == AppProfiler(config) IN
    /\ pc = "runApp"
    /\ events' = Append(events, Ev("ApplicationRunner.__init__", config.profiler))
    /\ IF p.exit = NoExit
       THEN /\ profiler' = p.profiler
            /\ pc' = "run"
            /\ UNCHANGED exit
       ELSE /\ exit' = p.exit
            /\ pc' = "done"
            /\ UNCHANGED profiler
    /\ UNCHANGED <<nargs, config, parseResult, installed, runPos, application,
                   triggers, oldstdout, crashLog, debugState>>

-----------------------------------------------------------------------------
(* ApplicationRunner.run *)

\* run() with the logging started before the application is acquired.
RunSteps_swapped ==
    <<"preApplication", "startLogging", "createOrGetApplication",
      "postApplication">>

\* The calls of run(), in the order of its body.
RunSteps ==
    <<"preApplication", "createOrGetApplication", "startLogging",
      "postApplication">>

AtStep(step) ==
    /\ pc = "run"
    /\ runPos \in DOMAIN RunSteps
    /\ RunSteps[runPos] = step

\* What a hook sees of the application attribute.
Attr == IF application = NoApp THEN "unset" ELSE "set"

\* The hook of the subclass; it returns.
preApplication ==
    /\ AtStep("preApplication")
    /\ events' = Append(events, Ev("preApplication", Attr))
    /\ runPos' = runPos + 1
    /\ UNCHANGED <<pc, nargs, config, parseResult, installed, profiler,
                   application, triggers, oldstdout, crashLog, debugState, exit>>

\* Exceptions service.loadApplication may raise: [type, args].
LoadErrors ==
    { [type |-> "KeyError", args |-> <<"application">>],
      [type |-> "KeyError", args |-> <<"other">>],
      [type |-> "KeyError", args |-> <<>>],
      [type |-> "IOError", args |-> <<"No such file">>] }

ArgText(e) == IF e.args = <<>> THEN "" ELSE e.args[1]

Hint == "Could not find 'application' in the file."

\* The selectors that are set, in the order getApplication looks at them.
SetSelectors(c) == SelectSeq(Selectors, LAMBDA t : Truthy(c[t]))

\* getApplication taking the last selector that is set.
ChosenSource_last(c) ==
    LET s == SetSelectors(c) IN
    [filename |-> c[s[Len(s)]],
     style |-> IF s[Len(s)] = "file" THEN "pickle" ELSE s[Len(s)]]

\* The first two statements of getApplication, when a selector is set.
ChosenSource(c) ==
    LET s == SetSelectors(c) IN
    [filename |-> c[s[1]],
     style |-> IF s[1] = "file" THEN "pickle" ELSE s[1]]

\* The except clause of getApplication: the exception that leaves it.
getApplication_except(e) ==
    IF e.type = "KeyError" /\ e.args = <<>>
    THEN [exc |-> "IndexError", msg |-> <<>>]
    ELSE [exc |-> "SystemExit",
          msg |-> <<"\n", "Failed to load application: ", ArgText(e)>>
                  \o (IF e.type = "KeyError" /\ e.args[1] = "application"
                      THEN <<Hint>> ELSE <<>>)
                  \o <<"\n">>]

\* createOrGetApplication that asks for the passphrase on both paths.
SubCommandEvents_passphrase(c) ==
    (IF c.encrypted THEN <<Ev("getpass", "Passphrase: ")>> ELSE <<>>)
    \o <<Ev("makeService", c.subCommand),
         <<"setServiceParent", MadeService(c.subCommand)[2], c.subCommand>>>>

\* The calls of the sub-command path of createOrGetApplication.
SubCommandEvents(c) ==
    <<Ev("makeService", c.subCommand),
      <<"setServiceParent", MadeService(c.subCommand)[2], c.subCommand>>>>

\* The calls of the other path up to service.loadApplication.
LoadEvents(c) ==
    (IF c.encrypted THEN <<Ev("getpass", "Passphrase: ")>> ELSE <<>>)
    \o <<<<"loadApplication", ChosenSource(c).filename, ChosenSource(c).style>>>>

\* createOrGetApplication with a sub-command: the container is built.
createOrGetApplication_sub ==
    /\ AtStep("createOrGetApplication")
    /\ config.subCommand # None
    /\ events' = Append(events, Ev("createOrGetApplication", Attr))
                 \o SubCommandEvents(config)
    /\ application' = [name |-> config.subCommand,
                       children |-> <<MadeService(config.subCommand)>>,
                       origin |-> "constructed"]
    /\ runPos' = runPos + 1
    /\ UNCHANGED <<pc, nargs, config, parseResult, installed, profiler,
                   triggers, oldstdout, crashLog, debugState, exit>>

\* createOrGetApplication without one: getApplication returns the
\* application service.loadApplication read.
createOrGetApplication_load ==
    /\ AtStep("createOrGetApplication")
    /\ config.subCommand = None
    /\ SetSelectors(config) # <<>>
    /\ events' = Append(events, Ev("createOrGetApplication", Attr))
                 \o LoadEvents(config)
    /\ application' = [name |-> ChosenSource(config).filename,
                       children |-> <<LoadedService(ChosenSource(config).filename)>>,
                       origin |-> ChosenSource(config).style]
    /\ runPos' = runPos + 1
    /\ UNCHANGED <<pc, nargs, config, parseResult, installed, profiler,
                   triggers, oldstdout, crashLog, debugState, exit>>

\* service.loadApplication raises e: the except clause of getApplication.
createOrGetApplication_fail ==
    /\ AtStep("createOrGetApplication")
    /\ config.subCommand = None
    /\ SetSelectors(config) # <<>>
    /\ \E e \in LoadErrors :
          /\ events' = Append(events, Ev("createOrGetApplication", Attr))
                       \o LoadEvents(config)
                       \o <<<<"loadApplication raised", e.type, ArgText(e)>>>>
          /\ exit' = getApplication_except(e)
    /\ pc' = "done"
    /\ UNCHANGED <<nargs, config, parseResult, installed, runPos, profiler,
                   application, triggers, oldstdout, crashLog, debugState>>

\* No selector is set (--file=): the list getApplication indexes is empty.
createOrGetApplication_none ==
    /\ AtStep("createOrGetApplication")
    /\ config.subCommand = None
    /\ SetSelectors(config) = <<>>
    /\ events' = Append(events, Ev("createOrGetApplication", Attr))
                 \o (IF config.encrypted THEN <<Ev("getpass", "Passphrase: ")>>
                     ELSE <<>>)
    /\ exit' = [exc |-> "IndexError", msg |-> <<>>]
    /\ pc' = "done"
    /\ UNCHANGED <<nargs, config, parseResult, installed, runPos, profiler,
                   application, triggers, oldstdout, crashLog, debugState>>

\* startLogging: the observer is added, sys.stdout flushed, initialLog called.
startLogging ==
    /\ AtStep("startLogging")
    /\ events' = Append(events, Ev("startLogging", Attr))
    /\ oldstdout' = Flush(oldstdout)
    /\ runPos' = runPos + 1
    /\ UNCHANGED <<pc, nargs, config, parseResult, installed, profiler,
                   application, triggers, crashLog, debugState, exit>>


-----------------------------------------------------------------------------
(* postApplication: startApplication and runReactorWithLogging *)

\* startApplication with the save registered in the 'before' phase.
startApplication_before(app, save, evs, trg) ==
    LET e1 == Append(evs, Ev("startService", app.name))
        e2 == IF save
              THEN Append(e1, <<"addSystemEventTrigger", "before", "save">>)
              ELSE e1
        t2 == IF save
              THEN [trg EXCEPT !.before = Append(@, "save")]
              ELSE trg IN
    [events |-> Append(e2, <<"addSystemEventTrigger", "before", "stopService">>),
     triggers |-> [t2 EXCEPT !.before = Append(@, "stopService")]]

\* startApplication(application, save): the call history and the reactor's
\* triggers after it.
startApplication(app, save, evs, trg) ==
    LET e1 == Append(evs, Ev("startService", app.name))
        e2 == IF save
              THEN Append(e1, <<"addSystemEventTrigger", "after", "save">>)
              ELSE e1
        t2 == IF save
              THEN [trg EXCEPT !.after = Append(@, "save")]
              ELSE trg IN
    [events |-> Append(e2, <<"addSystemEventTrigger", "before", "stopService">>),
     triggers |-> [t2 EXCEPT !.before = Append(@, "stopService")]]

\* The save argument the hook passes: persistence unless it is disabled.
SaveArg == ~config.no_save

\* The hook of the subclass: it starts the application, then runs the reactor
\* through runReactorWithLogging.
postApplication ==
    LET r == startApplication(application, SaveArg,
                              Append(events, Ev("postApplication", Attr)),
                              triggers) IN
    /\ AtStep("postApplication")
    /\ events' = r.events
    /\ triggers' = r.triggers
    /\ runPos' = runPos + 1
    /\ pc' = "runReactorWithLogging"
    /\ UNCHANGED <<nargs, config, parseResult, installed, profiler, application,
                   oldstdout, crashLog, debugState, exit>>

\* _reportImportError: the exception it raises.
reportImportError(module) ==
    [exc |-> "SystemExit", msg |-> <<"Failed to import module ", module>>]

\* The except clause that writes every traceback to the crash log.
except_clause_log(c, e, out, log) ==
    [oldstdout |-> out,
     crashLog |-> Flush(Write(log, <<"Traceback", e.exc>>))]

\* The except clause of runReactorWithLogging for the exception e: the two
\* sinks after it.  Nothing is raised again.  Opening and writing the sink
\* are taken to succeed.
except_clause(c, e, out, log) ==
    IF c.nodaemon
    THEN [oldstdout |-> Flush(Write(out, <<"Traceback", e.exc>>)),
          crashLog |-> log]
    ELSE [oldstdout |-> out,
          crashLog |-> Flush(Write(log, <<"Traceback", e.exc>>))]

\* runReactorWithLogging that tests config['debug'] before config['profile'].
RunPath_debugFirst(c) ==
    IF c.debug THEN "debug"
    ELSE IF Truthy(c.profile) THEN "profile"
    ELSE "plain"

\* The branch of runReactorWithLogging the configuration selects.
RunPath(c) ==
    IF Truthy(c.profile) THEN "profile"
    ELSE IF c.debug THEN "debug"
    ELSE "plain"

\* profiler.run(reactor): the backend's module is imported and the reactor is
\* run under it.  The runner always passes its profiler, so the branch for
\* profiler = None (runWithHotshot / runWithProfiler) is not taken.
runReactorWithLogging_profile ==
    /\ pc = "runReactorWithLogging"
    /\ RunPath(config) = "profile"
    /\ events' = events \o <<Ev("profiler.run", profiler),
                            <<"reactor.run", "profile", profiler>>>>
    /\ pc' = "reactor.run"
    /\ UNCHANGED <<nargs, config, parseResult, installed, runPos, profiler,
                   application, triggers, oldstdout, crashLog, debugState, exit>>

\* profiler.run(reactor) where the import fails: the SystemExit of
\* _reportImportError is raised inside the try statement.
runReactorWithLogging_importError ==
    LET e == reportImportError(profiler)
        r == except_clause(config, e, oldstdout, crashLog) IN
    /\ pc = "runReactorWithLogging"
    /\ RunPath(config) = "profile"
    /\ events' = events \o <<Ev("profiler.run", profiler),
                            <<"import failed", profiler, "">>>>
    /\ oldstdout' = r.oldstdout
    /\ crashLog' = r.crashLog
    /\ pc' = "done"
    /\ UNCHANGED <<nargs, config, parseResult, installed, runPos, profiler,
                   application, triggers, debugState, exit>>

\* The debug path: the original streams are restored, the two signal
\* handlers are set on posix, and the reactor is run under pdb.
runReactorWithLogging_debug ==
    /\ pc = "runReactorWithLogging"
    /\ RunPath(config) = "debug"
    /\ \E posix \in BOOLEAN :
          /\ debugState' = [streams |-> "original",
                            signals |-> IF posix THEN {"SIGUSR2", "SIGINT"} ELSE {}]
          /\ events' = Append(events, <<"reactor.run", "debug",
                                        IF posix THEN "posix" ELSE "win32">>)
    /\ pc' = "reactor.run"
    /\ UNCHANGED <<nargs, config, parseResult, installed, runPos, profiler,
                   application, triggers, oldstdout, crashLog, exit>>

runReactorWithLogging_plain ==
    /\ pc = "runReactorWithLogging"
    /\ RunPath(config) = "plain"
    /\ events' = Append(events, <<"reactor.run", "plain", "">>)
    /\ pc' = "reactor.run"
    /\ UNCHANGED <<nargs, config, parseResult, installed, runPos, profiler,
                   application, triggers, oldstdout, crashLog, debugState, exit>>

-----------------------------------------------------------------------------
(* The reactor *)

\* Exceptions that may escape reactor.run().
RunErrors == {"RuntimeError", "KeyboardInterrupt", "SystemExit"}

\* The calls of the triggers of one phase, in the order they were added.
Fire(phase) == [i \in 1..Len(phase) |-> Ev(phase[i], "shutdown")]

\* What the profiler writes once the reactor has returned.
Stats(c, path, name) ==
    IF path = "profile"
    THEN <<<<"stats", IF c.savestats THEN "raw" ELSE "text", name>>>>
    ELSE <<>>

\* An exception escapes reactor.run(): the except clause of
\* runReactorWithLogging handles it and the function returns.
reactor_crash ==
    /\ pc = "reactor.run"
    /\ \E x \in RunErrors :
          LET e == [exc |-> x, msg |-> <<>>]
              r == except_clause(config, e, oldstdout, crashLog) IN
          /\ events' = Append(events, <<"reactor.run raised", x, "">>)
          /\ oldstdout' = r.oldstdout
          /\ crashLog' = r.crashLog
    /\ pc' = "done"
    /\ UNCHANGED <<nargs, config, parseResult, installed, runPos, profiler,
                   application, triggers, debugState, exit>>

\* The reactor is stopped: the 'before' triggers of 'shutdown' are called,
\* then the 'after' triggers; reactor.run() returns and the profiler, if
\* any, writes its statistics.
reactor_shutdown ==
    /\ pc = "reactor.run"
    /\ events' = events \o Fire(triggers.before) \o Fire(triggers.after)
                        \o <<Ev("reactor.run returned", "")>>
                        \o Stats(config, RunPath(config), profiler)
    /\ pc' = "done"
    /\ UNCHANGED <<nargs, config, parseResult, installed, runPos, profiler,
                   application, triggers, oldstdout, crashLog, debugState, exit>>

RunStep ==
    \/ ApplicationRunner_init
    \/ preApplication
    \/ createOrGetApplication_sub
    \/ createOrGetApplication_load
    \/ createOrGetApplication_fail
    \/ createOrGetApplication_none
    \/ startLogging
    \/ postApplication
    \/ runReactorWithLogging_profile
    \/ runReactorWithLogging_importError
    \/ runReactorWithLogging_debug
    \/ runReactorWithLogging_plain
    \/ reactor_crash
    \/ reactor_shutdown

Next == ParseStep \/ RunStep

Spec == Init /\ [][Next]_vars

-----------------------------------------------------------------------------
(* Properties *)

\* The calls of the history whose operation is one of ops, in order.
Only(ops) == SelectSeq(events, LAMBDA e : e[1] \in ops)

\* Number of tracebacks written to a file.
Tracebacks(f) == Cardinality({i \in DOMAIN f.lines : f.lines[i][1] = "Traceback"})

\* C1: ApplicationRunner.run() calls preApplication, createOrGetApplication,
\* startLogging and postApplication in that order, each at most once; the
\* application attribute is unset while preApplication runs and set in
\* every state from the start of startLogging on.
C1_RunOrder ==
    LET order == <<"preApplication", "createOrGetApplication", "startLogging",
                   "postApplication">>
        steps == Only({order[i] : i \in DOMAIN order}) IN
    /\ Len(steps) <= Len(order)
    /\ \A i \in DOMAIN steps : steps[i][1] = order[i]
    /\ \A i \in DOMAIN steps :
          steps[i][2] = (IF i <= 2 THEN "unset" ELSE "set")
    /\ ~Called("createOrGetApplication") => application = NoApp
    /\ Called("startLogging") => application # NoApp

C1_Witness ==
    /\ Called("postApplication")
    /\ application # NoApp
    /\ pc = "done"

\* C2: startApplication starts the services before it registers a shutdown
\* trigger; when the reactor is shut down stopService is called, and the
\* application is saved after it if and only if save is true.
C2_ShutdownHooks ==
    /\ \A i, j \in DOMAIN events :
          (events[i][1] = "startService" /\ events[j][1] = "addSystemEventTrigger")
             => i < j
    /\ Called("addSystemEventTrigger") => Called("startService")
    /\ Called("reactor.run returned") =>
          /\ CountOp(events, "stopService") = 1
          /\ CountOp(events, "save") = (IF SaveArg THEN 1 ELSE 0)
    /\ Called("save") => SaveArg
    /\ \A i \in DOMAIN events :
          events[i][1] = "save" =>
             \E j \in 1..(i - 1) : events[j][1] = "stopService"

C2_Witness ==
    /\ Called("reactor.run returned")
    /\ Called("save")
    /\ SaveArg

\* C3: on every run path an exception that escapes reactor.run() is caught
\* once: one traceback is written, to the original standard output when
\* nodaemon is set and to TWISTD-CRASH.log otherwise, the sink is flushed,
\* nothing propagates and the reactor is not run again.
C3_CrashCaughtOnce ==
    Called("reactor.run raised") =>
       /\ exit = NoExit
       /\ pc = "done"
       /\ CountOp(events, "reactor.run") = 1
       /\ CountOp(events, "reactor.run raised") = 1
       /\ Tracebacks(oldstdout) = (IF config.nodaemon THEN 1 ELSE 0)
       /\ Tracebacks(crashLog) = (IF config.nodaemon THEN 0 ELSE 1)
       /\ ~(IF config.nodaemon THEN oldstdout.dirty ELSE crashLog.dirty)

C3_Witness ==
    /\ Called("reactor.run raised")
    /\ config.nodaemon
    /\ RunPath(config) = "profile"
    /\ Tracebacks(oldstdout) = 1

\* The selectors an argument has set.
ArgSet ==
    {t \in {"python", "xml", "source", "file"} :
        Truthy(config[t]) /\ config[t] # ServerOptionsInit[t]}

\* The selector getApplication reads: the first that is set, in the order
\* python, xml, source, file.
Preferred ==
    IF Truthy(config.python) THEN "python"
    ELSE IF Truthy(config.xml) THEN "xml"
    ELSE IF Truthy(config.source) THEN "source"
    ELSE "file"

C5_UnknownReactor ==
    [][\A n \in ReactorNames :
          events' = Append(events, Ev("opt_reactor", n)) =>
             /\ installReactor(n, installed).raised # None =>
                   /\ parseResult' = "usage"
                   /\ exit' = NoExit
                   /\ pc' = "done"
             /\ n \notin Registry =>
                   /\ installed' = installed
                   /\ parseResult' = "usage"]_vars

C5_Witness ==
    /\ events # <<>>
    /\ events[Len(events)] = Ev("opt_reactor", "doesnotexist")
    /\ parseResult = "usage"
    /\ installed = {"select"}

Unsupported(name) ==
    [exc |-> "SystemExit", msg |-> <<"Unsupported profiler name: ", name>>]

\* C6 as stated: when the requested profiler name is neither 'profile' nor
\* 'hotshot', constructing the runner ends with the SystemExit "Unsupported
\* profiler name: <name>".
C6_UnsupportedProfiler ==
    (Called("ApplicationRunner.__init__") /\ config.profiler \notin {"profile", "hotshot"})
       => exit = Unsupported(config.profiler)

\* C6 as amended: when the requested profiler name is neither 'profile' nor
\* 'hotshot' and nothotshot is not set, constructing the runner ends with
\* the SystemExit "Unsupported profiler name: <name>" before preApplication,
\* the loading of the application and the reactor's run; with nothotshot set
\* the name is ignored and the 'profile' backend is selected.
C6_UnsupportedUnlessNothotshot ==
    (Called("ApplicationRunner.__init__") /\ config.profiler \notin {"profile", "hotshot"})
       => IF config.nothotshot
          THEN /\ profiler = "profile"
               /\ exit # Unsupported(config.profiler)
          ELSE /\ exit = Unsupported(config.profiler)
               /\ pc = "done"
               /\ profiler = None
               /\ ~Called("preApplication")
               /\ ~Called("createOrGetApplication")
               /\ ~Called("loadApplication")
               /\ ~Called("reactor.run")

C6_Witness ==
    /\ Called("ApplicationRunner.__init__")
    /\ config.profiler = "bogus"
    /\ ~config.nothotshot
    /\ exit = Unsupported("bogus")

\* C7: createOrGetApplication is called at most once and takes one of two
\* paths.  With a sub-command, makeService is called once, the application
\* is a new container named after the plugin whose only child is the service
\* made, no passphrase is read and no file is loaded.  Without one, the
\* application comes from service.loadApplication and makeService is never
\* called.
C7_CreateOrGet ==
    /\ CountOp(events, "createOrGetApplication") <= 1
    /\ Called("createOrGetApplication") =>
          IF config.subCommand # None
          THEN /\ CountOp(events, "makeService") = 1
               /\ Called("makeService") /\ Only({"makeService"})[1][2] = config.subCommand
               /\ application = [name |-> config.subCommand,
                                 children |-> <<MadeService(config.subCommand)>>,
                                 origin |-> "constructed"]
               /\ ~Called("getpass")
               /\ ~Called("loadApplication")
          ELSE /\ ~Called("makeService")
               /\ CountOp(events, "loadApplication") <= 1
               /\ application # NoApp =>
                     /\ CountOp(events, "loadApplication") = 1
                     /\ application.origin # "constructed"
                     /\ application.name = Only({"loadApplication"})[1][2]

C7_Witness ==
    /\ Called("createOrGetApplication")
    /\ config.subCommand = "web"
    /\ config.encrypted
    /\ Len(application.children) = 1

\* C8: whenever service.loadApplication raises, no application is returned,
\* the process ends with a SystemExit whose message starts "Failed to load
\* application", logging and postApplication are not reached, and the
\* message carries the hint about the variable 'application' exactly when
\* the exception is a KeyError whose key is "application".
C8_LoadFailure ==
    \A i \in DOMAIN events :
       events[i][1] = "loadApplication raised" =>
          /\ application = NoApp
          /\ ~Called("startLogging")
          /\ ~Called("postApplication")
          /\ exit.exc = "SystemExit"
          /\ Len(exit.msg) >= 2
          /\ exit.msg[2] = "Failed to load application: "
          /\ (\E k \in DOMAIN exit.msg : exit.msg[k] = Hint)
                <=> (events[i][2] = "KeyError" /\ events[i][3] = "application")

\* C9: when profiling is configured and the backend's module cannot be
\* imported, runReactorWithLogging ends with the SystemExit "Failed to
\* import module ...", no traceback is written and the reactor is not run.
C9_ImportFailure ==
    Called("import failed") =>
       /\ exit.exc = "SystemExit"
       /\ exit.msg # <<>>
       /\ exit.msg[1] = "Failed to import module "
       /\ Tracebacks(oldstdout) + Tracebacks(crashLog) = 0
       /\ ~Called("reactor.run")

\* Number of lines of one kind in a file.
Lines(f, kind) == Cardinality({i \in DOMAIN f.lines : f.lines[i][1] = kind})

\* C10: run() calls runApp(config) if and only if option parsing ended
\* without an error; after a usage error the usage text and one error line
\* are on standard output, runApp is not called, no application is loaded
\* and the reactor is not run.
C10_RunAppIffParsed ==
    /\ Called("runApp") <=> parseResult = "ok"
    /\ CountOp(events, "runApp") <= 1
    /\ parseResult = "usage" =>
          /\ Lines(oldstdout, "usage text") = 1
          /\ Lines(oldstdout, "error line") = 1
          /\ oldstdout.lines[Len(oldstdout.lines)][1] = "error line"
          /\ pc = "done"
          /\ application = NoApp
          /\ ~Called("ApplicationRunner.__init__")
          /\ ~Called("loadApplication")
          /\ ~Called("makeService")
          /\ ~Called("reactor.run")

C10_Witness ==
    /\ parseResult = "usage"
    /\ nargs = MaxArgs
    /\ Lines(oldstdout, "error line") = 1
    /\ oldstdout.lines[Len(oldstdout.lines)][2] = "option not recognized"

\* The path the claim names for a configuration.
ClaimedPath ==
    IF Truthy(config.profile) THEN "profile"
    ELSE IF config.debug THEN "debug"
    ELSE "plain"

\* runReactorWithLogging has been called and has gone past its try statement.
Entered == Called("postApplication") /\ pc \in {"reactor.run", "done"}

\* C11 as stated: in each call of runReactorWithLogging the reactor's run is
\* invoked exactly once.
C11_RunExactlyOnce ==
    Entered => CountOp(events, "reactor.run") = 1

\* C11 as amended: the profiler is selected once, when the runner is
\* constructed; in a call of runReactorWithLogging the reactor's run is
\* invoked at most once, through the one path the configuration selects
\* (profile, else debug, else plain), and exactly once unless profiling is
\* configured and the backend's module cannot be imported, when it is not
\* invoked.  On the profiling path profiler.run is called once, with the
\* backend selected at construction, and nothing of the debug path happens,
\* also when debug is set; on the debug path the original streams are
\* restored and the two signal handlers are set on posix.
C11_OnePath ==
    /\ CountOp(events, "ApplicationRunner.__init__") <= 1
    /\ CountOp(events, "reactor.run") <= 1
    /\ CountOp(events, "profiler.run") <= 1
    /\ \A i \in DOMAIN events :
          events[i][1] = "reactor.run" => events[i][2] = ClaimedPath
    /\ \A i \in DOMAIN events :
          events[i][1] = "profiler.run" =>
             /\ events[i][2] = (IF config.nothotshot THEN "profile"
                                ELSE config.profiler)
             /\ events[i][2] \in {"profile", "hotshot"}
    /\ Called("import failed") => ClaimedPath = "profile" /\ ~Called("reactor.run")
    /\ Entered =>
          /\ CountOp(events, "reactor.run") = 1 \/ Called("import failed")
          /\ CountOp(events, "profiler.run") = (IF ClaimedPath = "profile" THEN 1 ELSE 0)
          /\ IF ClaimedPath = "debug"
             THEN /\ debugState.streams = "original"
                  /\ \A i \in DOMAIN events :
                        events[i][1] = "reactor.run" =>
                           debugState.signals =
                              (IF events[i][3] = "posix"
                               THEN {"SIGUSR2", "SIGINT"} ELSE {})
             ELSE debugState = [streams |-> "redirected", signals |-> {}]

C11_Witness ==
    /\ Entered
    /\ Truthy(config.profile)
    /\ config.debug
    /\ Called("reactor.run returned")
    /\ CountOp(events, "profiler.run") = 1
    /\ debugState.signals = {}

=============================================================================
